---- MODULE Spec2Model ----
(***************************************************************************)
(* Agent lifecycle and state orchestration of the multi-agent system:      *)
(* AgentRunner (src/agents/main.py), BaseAgent (src/agents/base_agent.py)  *)
(* and the DatabaseManager tables they write (src/database/manager.py).    *)
(***************************************************************************)
EXTENDS Naturals, Sequences, FiniteSets, TLC

(* ------------------------------------------------------------------ *)
(* Bounds of the model                                                *)
(* ------------------------------------------------------------------ *)

\* Context entries appended in one run of Spec (the clock's last value).
MaxAppends == 2

\* Entries appended beyond the window's capacity in one run of SpecCtx.
MaxOverflow == 2

\* Entries of a SpecCtx run, counted back from its end, that any
\* operation may append; the entries before them come from process_message.
MixedTail == 4

\* AgentRunner coroutines (restart_agent, start_all_agents, stop_all_agents,
\* initialize_agent) in flight at once in one run of SpecRunner or
\* SpecLife, next to the start_agent and stop_agent calls made meanwhile.
MaxInFlight == 1

\* Context entries appended in one run of SpecTasks.
MaxLedgerAppends == 3

(* ------------------------------------------------------------------ *)
(* Program constants and input domains                                *)
(* ------------------------------------------------------------------ *)

\* base_agent.py:129  "if len(self.state.context_window) > 50"
ContextCapacity == 50

\* Python's None (AgentState.current_task is Optional[str]).
None == "<None>"

\* config.agents, in the order of the configuration file.
ConfigOrder == <<"alice", "bob">>

\* config.agents: the names that have an AgentConfig.
ConfiguredAgents == {"alice", "bob"}

\* A name with no AgentConfig.
UnknownAgents == {"carol"}

AgentNames == ConfiguredAgents \cup UnknownAgents

\* Task ids a caller may pass: TaskAssignment.task_id is any str, the
\* empty string included.
TaskIds == {"", "t1"}

\* assigned_agent values a caller may pass.
TaskAgents == {"alice"}

\* TaskAssignment.status is a free str field defaulting to "assigned".
InputStatuses == {"assigned", "working"}

\* The uuid4 values BaseAgent.__init__ draws in one run, in order: one
\* per agent object constructed.
Uuids == <<"uuid1", "uuid2">>

VARIABLES
    agents,        \* AgentRunner.agents: name -> agent_id of the live BaseAgent
    instances,     \* the BaseAgent objects: agent_id -> fields
    n_created,     \* how many BaseAgent objects were constructed so far
    tasks,         \* table tasks: task_id -> row
    activities,    \* table agent_activities: rows, ids and timestamps dropped
    agent_states,  \* table agent_states: agent_id -> row
    clock,         \* datetime.utcnow(), advanced by every context append
    starting,      \* start_agent calls suspended in initialize_integrations
    ctx_log,       \* history: agent_id -> every entry ever appended, in order
    last,          \* history: the call that ended in the latest step
    in_flight,     \* AgentRunner coroutines that have not returned yet
    returned,      \* history: << >>, or the one AgentRunner coroutine that
                   \* returned in the latest step
    sessions       \* agent_ids whose SlackClient.is_connected is True: the
                   \* Socket Mode sessions that are open (followed in
                   \* SpecLife; empty in the other specifications)

vars == <<agents, instances, n_created, tasks, activities, agent_states,
          clock, starting, ctx_log, last, in_flight, returned, sessions>>

(* ------------------------------------------------------------------ *)
(* DatabaseManager (src/database/manager.py)                          *)
(* Every method catches all exceptions and returns False; db_up says  *)
(* whether the engine accepts the statement of this call.             *)
(* ------------------------------------------------------------------ *)

\* An insert into a table without the UNIQUE constraint: it succeeds for a
\* task_id that is already there, and reads keep returning the first row.
store_task_accepts_duplicates(rows, task, db_up) ==
    IF db_up
    THEN [ok |-> TRUE,
          rows |-> IF task.task_id \in DOMAIN rows THEN rows
                   ELSE rows @@ (task.task_id :>
                          [assigned_agent |-> task.assigned_agent,
                           status |-> task.status])]
    ELSE [ok |-> FALSE, rows |-> rows]

\* An insert that replaces the row of a task_id already in the table.
store_task_upsert(rows, task, db_up) ==
    IF db_up
    THEN [ok |-> TRUE,
          rows |-> [t \in DOMAIN rows \cup {task.task_id} |->
                      IF t = task.task_id
                      THEN [assigned_agent |-> task.assigned_agent,
                            status |-> task.status]
                      ELSE rows[t]]]
    ELSE [ok |-> FALSE, rows |-> rows]

\* An insert that promotes the row to "working" as it stores it.
store_task_promoted(rows, task, db_up) ==
    IF db_up /\ task.task_id \notin DOMAIN rows
    THEN [ok |-> TRUE,
          rows |-> rows @@ (task.task_id :>
                     [assigned_agent |-> task.assigned_agent,
                      status |-> "working"])]
    ELSE [ok |-> FALSE, rows |-> rows]

\* INSERT INTO tasks: tasks.task_id is UNIQUE (database/models.py:121), so
\* a second row with the same task_id raises and the method returns False.
\* The row keeps the status the TaskAssignment carries.
store_task(rows, task, db_up) ==
    IF db_up /\ task.task_id \notin DOMAIN rows
    THEN [ok |-> TRUE,
          rows |-> rows @@ (task.task_id :>
                     [assigned_agent |-> task.assigned_agent,
                      status |-> task.status])]
    ELSE [ok |-> FALSE, rows |-> rows]

\* UPDATE tasks SET status WHERE task_id: an UPDATE that matches no row is
\* no error, so the method returns True whether or not the task exists.
update_task_status(rows, task_id, status, db_up) ==
    IF db_up
    THEN [ok |-> TRUE,
          rows |-> [t \in DOMAIN rows |->
                      IF t = task_id THEN [rows[t] EXCEPT !.status = status]
                                     ELSE rows[t]]]
    ELSE [ok |-> FALSE, rows |-> rows]

\* INSERT INTO agent_activities.
store_activity(rows, agent_id, activity_type, action, db_up) ==
    IF db_up
    THEN [ok |-> TRUE,
          rows |-> rows \cup {[agent_id |-> agent_id,
                               activity_type |-> activity_type,
                               action |-> action]}]
    ELSE [ok |-> FALSE, rows |-> rows]

\* store_agent_state opens with session.query(Base.classes.agent_states):
\* Base is declarative_base() (database/models.py:11), which has no
\* attribute "classes", so the AttributeError is caught at line 141 and the
\* method returns False without writing a row, on every call.
store_agent_state(rows, agent_id, state) ==
    [ok |-> FALSE, rows |-> rows]

\* SELECT * FROM agent_states WHERE agent_id: the row or None.
get_agent_state(rows, agent_id) ==
    IF agent_id \in DOMAIN rows THEN rows[agent_id] ELSE None

(* ------------------------------------------------------------------ *)
(* BaseAgent state (src/agents/base_agent.py)                         *)
(* ------------------------------------------------------------------ *)

\* Python truthiness of Optional[str]: None and "" are both false.
Truthy(x) == x # None /\ x # ""

\* window[-k:]
LastK(window, k) ==
    IF Len(window) <= k THEN window
    ELSE SubSeq(window, Len(window) - k + 1, Len(window))

\* The fields AgentState gets in BaseAgent.__init__, with both clients None.
InitialState(name) ==
    [name |-> name,
     current_task |-> None,
     task_status |-> "idle",
     context_window |-> << >>,
     slack_client |-> FALSE]

ContextEntry(now, type, ref) ==
    [timestamp |-> now, content |-> [type |-> type, ref |-> ref]]

\* A truncation that keeps the oldest 50 entries (window[:50]).
add_to_context_keep_oldest(st, entry) ==
    LET appended == Append(st.context_window, entry)
    IN  [st EXCEPT !.context_window =
            IF Len(appended) > ContextCapacity
            THEN SubSeq(appended, 1, ContextCapacity)
            ELSE appended]

\* _add_to_context without its trailing _save_state: append, then keep the
\* last 50.
add_to_context(st, entry) ==
    LET appended == Append(st.context_window, entry)
    IN  [st EXCEPT !.context_window =
            IF Len(appended) > ContextCapacity
            THEN LastK(appended, ContextCapacity)
            ELSE appended]

\* _save_state: the table after db_manager.store_agent_state(agent_id, state).
save_state(rows, agent_id, st) ==
    store_agent_state(rows, agent_id,
        [current_task |-> st.current_task,
         task_status |-> st.task_status,
         context_window |-> st.context_window]).rows

\* An assignment that updates the state before looking at store_task's
\* result.
assign_state_always(st, task_id, success) ==
    [st EXCEPT !.current_task = task_id, !.task_status = "working"]

\* An assignment that sets current_task and leaves task_status alone.
assign_state_task_only(st, task_id, success) ==
    IF success THEN [st EXCEPT !.current_task = task_id] ELSE st

\* assign_task lines 495-499: the state update made when store_task succeeded.
assign_state(st, task_id, success) ==
    IF success
    THEN [st EXCEPT !.current_task = task_id, !.task_status = "working"]
    ELSE st

\* A completion that never clears the current task.
complete_state_never(st, task_id, success) == st

\* A completion that clears the current task whichever task was completed.
complete_state_any(st, task_id, success) ==
    IF success
    THEN [st EXCEPT !.current_task = None, !.task_status = "idle"]
    ELSE st

\* complete_task lines 532-537: the state update made when the ledger
\* update succeeded and the task is the agent's current one.
complete_state(st, task_id, success) ==
    IF success /\ st.current_task = task_id
    THEN [st EXCEPT !.current_task = None, !.task_status = "idle"]
    ELSE st

\* A payload whose active_tasks tests task_status, a string that is never
\* empty.
get_health_status_always_active(st, psutil_ok) ==
    IF psutil_ok
    THEN [status |-> "healthy",
          agent_name |-> st.name,
          active_tasks |-> 1,
          context_window_size |-> Len(st.context_window),
          slack |-> st.slack_client]
    ELSE [status |-> "error", agent_name |-> st.name]

\* get_health_status: the payload; psutil_ok is whether "import psutil" and
\* its process queries succeed.
get_health_status(st, psutil_ok) ==
    IF psutil_ok
    THEN [status |-> "healthy",
          agent_name |-> st.name,
          active_tasks |-> IF Truthy(st.current_task) THEN 1 ELSE 0,
          context_window_size |-> Len(st.context_window),
          slack |-> st.slack_client]
    ELSE [status |-> "error", agent_name |-> st.name]

\* send_slack_message: False without a client; otherwise the client's
\* send_message result, with a slack_message_sent entry appended on success.
\* Returns the call's result, the agent's fields and the entries appended.
send_slack_message(st, now, send_ok) ==
    IF st.slack_client /\ send_ok
    THEN [ret |-> TRUE,
          st |-> add_to_context(st,
                    ContextEntry(now, "slack_message_sent", "default_channel")),
          entries |-> <<ContextEntry(now, "slack_message_sent",
                                     "default_channel")>>]
    ELSE [ret |-> FALSE, st |-> st, entries |-> << >>]

\* SlackClient.send_message lines 276-292: after a successful post it logs
\* an activity under the agent's name, ignoring store_activity's result.
sent_activity(rows, st, send_ok, db_up) ==
    IF st.slack_client /\ send_ok
    THEN store_activity(rows, st.name, "slack", "message_sent", db_up).rows
    ELSE rows

\* The collaborator calls a send_slack_message makes.
SendCalls(st, send_ok) ==
    IF ~st.slack_client THEN {}
    ELSE IF send_ok
         THEN {"send_message", "store_activity", "store_agent_state"}
         ELSE {"send_message"}

(* ------------------------------------------------------------------ *)
(* Small helpers of the model                                         *)
(* ------------------------------------------------------------------ *)

EmptyMap == [x \in {} |-> None]

\* d[k] = v on a dict.
Put(d, k, v) == [x \in DOMAIN d \cup {k} |-> IF x = k THEN v ELSE d[x]]

\* del d[k]
Del(d, k) == [x \in DOMAIN d \ {k} |-> d[x]]

PyBool(b) == IF b THEN "True" ELSE "False"

\* The live agent objects: those the registry maps a name to.
Registered == {agents[n] : n \in DOMAIN agents}

NoCall == [op |-> "-", ret |-> "-", calls |-> {}]

\* The operation, what it returned and the collaborator calls it made.
Call(op, ret, calls) == [op |-> op, ret |-> ret, calls |-> calls]

\* The entries a call appended go to the clock and to the history.
Logged(i, entries) ==
    /\ clock' = clock + Len(entries)
    /\ ctx_log' = [ctx_log EXCEPT ![i] = @ \o entries]

(* ------------------------------------------------------------------ *)
(* BaseAgent operations, on the agent object with agent_id i          *)
(* ------------------------------------------------------------------ *)

\* shared/models.py:20-27
MessageTypes ==
    {"task_assignment", "code_review", "status_update",
     "collaboration_request", "debugging_request",
     "architecture_discussion"}

\* target_agent values a caller may pass.
CollabTargets == {"bob"}

\* request_type values a caller may pass: a member and a non-member.
RequestTypes == {"code_review", "no_such_type"}

\* TaskAssignment values a caller may pass.
TaskInputs ==
    [task_id : TaskIds, assigned_agent : TaskAgents,
     status : InputStatuses]

\* An assign_task that takes a task_id already in the table for a task
\* already stored, and adopts it.
assign_task_adopts_existing(i, task, db_up) ==
    LET r == store_task(tasks, task, db_up)
        ok == r.ok \/ (db_up /\ task.task_id \in DOMAIN tasks)
        st1 == assign_state(instances[i], task.task_id, ok)
        entries == IF ok
                   THEN <<ContextEntry(clock, "task_assigned", task.task_id)>>
                   ELSE << >>
        st2 == IF ok THEN add_to_context(st1, entries[1]) ELSE st1
    IN  /\ i \in DOMAIN instances
        /\ tasks' = r.rows
        /\ instances' = [instances EXCEPT ![i] = st2]
        /\ agent_states' =
              IF ok
              THEN save_state(save_state(agent_states, i, st1), i, st2)
              ELSE agent_states
        /\ Logged(i, entries)
        /\ last' = Call("assign_task", PyBool(ok),
                        {"store_task"} \cup
                        (IF ok THEN {"store_agent_state"} ELSE {}))
        /\ UNCHANGED <<agents, n_created, activities, starting>>

\* assign_task(task): store_task; on success set current_task and status,
\* _save_state, append task_assigned; return store_task's result.
assign_task(i, task, db_up) ==
    LET r == store_task(tasks, task, db_up)
        st1 == assign_state(instances[i], task.task_id, r.ok)
        entries == IF r.ok
                   THEN <<ContextEntry(clock, "task_assigned", task.task_id)>>
                   ELSE << >>
        st2 == IF r.ok THEN add_to_context(st1, entries[1]) ELSE st1
    IN  /\ i \in DOMAIN instances
        /\ tasks' = r.rows
        /\ instances' = [instances EXCEPT ![i] = st2]
        /\ agent_states' =
              IF r.ok
              THEN save_state(save_state(agent_states, i, st1), i, st2)
              ELSE agent_states
        /\ Logged(i, entries)
        /\ last' = Call("assign_task", PyBool(r.ok),
                        {"store_task"} \cup
                        (IF r.ok THEN {"store_agent_state"} ELSE {}))
        /\ UNCHANGED <<agents, n_created, activities, starting>>

\* complete_task(task_id, result): update_task_status(task_id, "completed");
\* on success clear the current task if it is this one (and _save_state),
\* append task_completed; return update_task_status's result.
complete_task(i, task_id, db_up) ==
    LET r == update_task_status(tasks, task_id, "completed", db_up)
        st1 == complete_state(instances[i], task_id, r.ok)
        entries == IF r.ok
                   THEN <<ContextEntry(clock, "task_completed", task_id)>>
                   ELSE << >>
        st2 == IF r.ok THEN add_to_context(st1, entries[1]) ELSE st1
    IN  /\ i \in DOMAIN instances
        /\ tasks' = r.rows
        /\ instances' = [instances EXCEPT ![i] = st2]
        /\ agent_states' =
              IF r.ok
              THEN save_state(
                      IF instances[i].current_task = task_id
                      THEN save_state(agent_states, i, st1)
                      ELSE agent_states,
                      i, st2)
              ELSE agent_states
        /\ Logged(i, entries)
        /\ last' = Call("complete_task", PyBool(r.ok),
                        {"update_task_status"} \cup
                        (IF r.ok THEN {"store_agent_state"} ELSE {}))
        /\ UNCHANGED <<agents, n_created, activities, starting>>

\* A request_collaboration that logs the activity before it builds and
\* validates the CollaborationRequest.
request_collaboration_stores_first(i, target_agent, request_type, db_up) ==
    LET valid == request_type \in MessageTypes
        r == store_activity(activities, i, "collaboration",
                            "request_sent", db_up)
        ok == r.ok /\ valid
        entries == IF ok
                   THEN <<ContextEntry(clock, "collaboration_requested",
                                       target_agent)>>
                   ELSE << >>
        st1 == IF ok THEN add_to_context(instances[i], entries[1])
                     ELSE instances[i]
    IN  /\ i \in DOMAIN instances
        /\ activities' = r.rows
        /\ instances' = [instances EXCEPT ![i] = st1]
        /\ agent_states' =
              IF ok THEN save_state(agent_states, i, st1) ELSE agent_states
        /\ Logged(i, entries)
        /\ last' = Call("request_collaboration", PyBool(ok),
                        {"store_activity"} \cup
                        (IF ok THEN {"store_agent_state"} ELSE {}))
        /\ UNCHANGED <<agents, n_created, tasks, starting>>

\* request_collaboration: building the CollaborationRequest (and reading
\* request_type.value) raises for a value outside MessageType, which the
\* method catches, returning False; otherwise store_activity, and on
\* success append collaboration_requested.
request_collaboration(i, target_agent, request_type, db_up) ==
    LET valid == request_type \in MessageTypes
        r == IF valid
             THEN store_activity(activities, i, "collaboration",
                                 "request_sent", db_up)
             ELSE [ok |-> FALSE, rows |-> activities]
        entries == IF r.ok
                   THEN <<ContextEntry(clock, "collaboration_requested",
                                       target_agent)>>
                   ELSE << >>
        st1 == IF r.ok THEN add_to_context(instances[i], entries[1])
                       ELSE instances[i]
    IN  /\ i \in DOMAIN instances
        /\ activities' = r.rows
        /\ instances' = [instances EXCEPT ![i] = st1]
        /\ agent_states' =
              IF r.ok THEN save_state(agent_states, i, st1) ELSE agent_states
        /\ Logged(i, entries)
        /\ last' = Call("request_collaboration", PyBool(r.ok),
                        (IF valid THEN {"store_activity"} ELSE {}) \cup
                        (IF r.ok THEN {"store_agent_state"} ELSE {}))
        /\ UNCHANGED <<agents, n_created, tasks, starting>>

\* A process_message that records the response before the message.
process_message_swapped(i, ai_ok, db_up) ==
    LET response == IF ai_ok THEN "completion" ELSE "fallback"
        outgoing == ContextEntry(clock, "outgoing_message", response)
        incoming == ContextEntry(clock + 1, "incoming_message", "channel")
        st1 == add_to_context(instances[i], outgoing)
        st2 == add_to_context(st1, incoming)
    IN  /\ i \in DOMAIN instances
        /\ instances' = [instances EXCEPT ![i] = st2]
        /\ agent_states' =
              save_state(save_state(agent_states, i, st1), i, st2)
        /\ activities' = store_activity(activities, i, "slack",
                                        "message_processed", db_up).rows
        /\ Logged(i, <<outgoing, incoming>>)
        /\ last' = Call("process_message", response,
                        {"ai_completion", "store_agent_state",
                         "store_activity"})
        /\ UNCHANGED <<agents, n_created, tasks, starting>>

\* A process_message that answers a failed store_activity with the apology
\* of its except branch.
process_message_apology_on_db_failure(i, ai_ok, db_up) ==
    LET response == IF ai_ok THEN "completion" ELSE "fallback"
        incoming == ContextEntry(clock, "incoming_message", "channel")
        outgoing == ContextEntry(clock + 1, "outgoing_message", response)
        st1 == add_to_context(instances[i], incoming)
        st2 == add_to_context(st1, outgoing)
    IN  /\ i \in DOMAIN instances
        /\ instances' = [instances EXCEPT ![i] = st2]
        /\ agent_states' =
              save_state(save_state(agent_states, i, st1), i, st2)
        /\ activities' = store_activity(activities, i, "slack",
                                        "message_processed", db_up).rows
        /\ Logged(i, <<incoming, outgoing>>)
        /\ last' = Call("process_message",
                        IF db_up THEN response ELSE "apology",
                        {"ai_completion", "store_agent_state",
                         "store_activity"})
        /\ UNCHANGED <<agents, n_created, tasks, starting>>

\* process_message(message, channel, sender, type): append
\* incoming_message, await _generate_response (the model's text, or its
\* fixed fallback text when the completion raised), append
\* outgoing_message, log the activity, return the response. The awaited
\* coroutine makes only blocking calls, so the handler runs without
\* suspending.
process_message(i, ai_ok, db_up) ==
    LET response == IF ai_ok THEN "completion" ELSE "fallback"
        incoming == ContextEntry(clock, "incoming_message", "channel")
        outgoing == ContextEntry(clock + 1, "outgoing_message", response)
        st1 == add_to_context(instances[i], incoming)
        st2 == add_to_context(st1, outgoing)
    IN  /\ i \in DOMAIN instances
        /\ instances' = [instances EXCEPT ![i] = st2]
        /\ agent_states' =
              save_state(save_state(agent_states, i, st1), i, st2)
        /\ activities' = store_activity(activities, i, "slack",
                                        "message_processed", db_up).rows
        /\ Logged(i, <<incoming, outgoing>>)
        /\ last' = Call("process_message", response,
                        {"ai_completion", "store_agent_state",
                         "store_activity"})
        /\ UNCHANGED <<agents, n_created, tasks, starting>>

\* process_message called with a message_type that is not a MessageType
\* member (a plain string): building the incoming entry reads
\* message_type.value, the AttributeError is raised before _add_to_context
\* is called, and the except branch returns the apology text.
process_message_bad_type(i) ==
    /\ i \in DOMAIN instances
    /\ last' = Call("process_message", "apology", {})
    /\ UNCHANGED <<agents, instances, n_created, tasks, activities,
                   agent_states, clock, starting, ctx_log>>

\* A direct send_slack_message(channel, message) call on the agent.
slack_message(i, send_ok, db_up) ==
    LET s == send_slack_message(instances[i], clock, send_ok)
    IN  /\ i \in DOMAIN instances
        /\ instances' = [instances EXCEPT ![i] = s.st]
        /\ activities' = sent_activity(activities, instances[i], send_ok,
                                       db_up)
        /\ agent_states' =
              IF s.ret THEN save_state(agent_states, i, s.st)
                       ELSE agent_states
        /\ Logged(i, s.entries)
        /\ last' = Call("send_slack_message", PyBool(s.ret),
                        SendCalls(instances[i], send_ok))
        /\ UNCHANGED <<agents, n_created, tasks, starting>>

(* ------------------------------------------------------------------ *)
(* Socket Mode sessions (src/integrations/slack_client.py)            *)
(* ------------------------------------------------------------------ *)

\* SlackClient.start(): is_connected becomes True when the handler's start
\* returns; when it raises, start re-raises and the flag stays False.
slack_client_start(open, i, start_ok) ==
    IF start_ok THEN open \cup {i} ELSE open

\* SlackClient.stop(): handler.close(), then is_connected = False; when
\* close raises, the method logs it and the flag stays as it was.
slack_client_stop(open, i, close_ok) ==
    IF close_ok THEN open \ {i} ELSE open

\* A shutdown that leaves the Slack client alone.
shutdown_keeps_session(open, i, st, close_ok) == open

\* BaseAgent.shutdown() as far as the sessions go: slack_client.stop() when
\* the agent has a client; the _save_state that follows and every failure
\* are caught inside, so the coroutine always returns None.
shutdown(open, i, st, close_ok) ==
    IF st.slack_client THEN slack_client_stop(open, i, close_ok) ELSE open

(* ------------------------------------------------------------------ *)
(* AgentRunner (src/agents/main.py)                                   *)
(* The configuration is one with slack.default_channel set, so the    *)
(* presence and departure notifications are attempted whenever the    *)
(* agent has a Slack client.                                          *)
(* ------------------------------------------------------------------ *)

\* The notification of start_agent / stop_agent and what it leaves behind.
Notify(i, st, send_ok, db_up) ==
    LET s == send_slack_message(st, clock, send_ok)
    IN  /\ activities' = sent_activity(activities, st, send_ok, db_up)
        /\ Logged(i, s.entries)

\* A start that builds the BaseAgent before it looks the configuration up,
\* so that an unknown name leaves an agent object behind.
start_agent_new_builds_first(name, tokens) ==
    LET i == Uuids[n_created + 1]
        st0 == [InitialState(name) EXCEPT !.slack_client = tokens]
    IN  /\ name \notin DOMAIN agents
        /\ n_created < Len(Uuids)
        /\ n_created' = n_created + 1
        /\ instances' = instances @@ (i :> st0)
        /\ ctx_log' = ctx_log @@ (i :> << >>)
        /\ agent_states' = save_state(agent_states, i, st0)
        /\ IF name \notin ConfiguredAgents
           THEN /\ last' = Call("start_agent", "None", {"store_agent_state"})
                /\ UNCHANGED <<agents, starting>>
           ELSE IF tokens
           THEN /\ starting' = starting \cup {[name |-> name, id |-> i]}
                /\ last' = NoCall
                /\ UNCHANGED agents
           ELSE /\ agents' = Put(agents, name, i)
                /\ last' = Call("start_agent", "None",
                                {"store_agent_state"})
                /\ UNCHANGED starting
        /\ UNCHANGED <<tasks, activities, clock>>

\* start_agent(name) with name not in self.agents: initialize_agent.
\* _get_agent_config raises for an unknown name, which start_agent logs.
\* Otherwise BaseAgent(config) is built (its _load_state finds no row for
\* the fresh uuid and tries to store the initial state) and
\* initialize_integrations runs: without tokens it makes no client and the
\* call goes on to register the agent and return; with tokens it makes the
\* Slack client and suspends in "await self.slack_client.start()".
start_agent_new(name, tokens) ==
    LET i == Uuids[n_created + 1]
        st0 == [InitialState(name) EXCEPT !.slack_client = tokens]
        found == get_agent_state(agent_states, i)
    IN  /\ name \notin DOMAIN agents
        /\ IF name \notin ConfiguredAgents
           THEN /\ last' = Call("start_agent", "None", {})
                /\ UNCHANGED <<agents, instances, n_created, tasks,
                               activities, agent_states, clock, starting,
                               ctx_log>>
           ELSE /\ n_created' = n_created + 1
                /\ instances' = instances @@ (i :> st0)
                /\ ctx_log' = ctx_log @@ (i :> << >>)
                /\ agent_states' =
                      IF found = None
                      THEN save_state(agent_states, i, st0)
                      ELSE agent_states
                /\ IF tokens
                   THEN /\ starting' = starting \cup
                                          {[name |-> name, id |-> i]}
                        /\ last' = NoCall
                        /\ UNCHANGED agents
                   ELSE /\ agents' = Put(agents, name, i)
                        /\ last' = Call("start_agent", "None",
                                        {"store_agent_state"})
                        /\ UNCHANGED starting
                /\ UNCHANGED <<tasks, activities, clock>>

\* The rest of a suspended start_agent: slack_client.start() returns or
\* raises (initialize_integrations catches it; either way the client object
\* stays set), the agent is put in the registry under its name, and the
\* presence notification is sent through the agent now registered.
start_agent_resume(p, send_ok, db_up) ==
    LET i == p.id
        st1 == instances[i]
        s == send_slack_message(st1, clock, send_ok)
    IN  /\ p \in starting
        /\ starting' = starting \ {p}
        /\ agents' = Put(agents, p.name, i)
        /\ instances' = [instances EXCEPT ![i] = s.st]
        /\ Notify(i, st1, send_ok, db_up)
        /\ agent_states' =
              IF s.ret THEN save_state(agent_states, i, s.st)
                       ELSE agent_states
        /\ last' = Call("start_agent", "None",
                        {"slack_start"} \cup SendCalls(st1, send_ok))
        /\ UNCHANGED <<n_created, tasks>>

\* A start that initializes the agent again although it is registered.
start_agent_running_reinit(name, send_ok, db_up) ==
    LET i == Uuids[n_created + 1]
    IN  /\ name \in DOMAIN agents
        /\ n_created < Len(Uuids)
        /\ n_created' = n_created + 1
        /\ instances' = instances @@ (i :> InitialState(name))
        /\ ctx_log' = ctx_log @@ (i :> << >>)
        /\ agents' = Put(agents, name, i)
        /\ agent_states' = save_state(agent_states, i, InitialState(name))
        /\ last' = Call("start_agent", "None", {"store_agent_state"})
        /\ UNCHANGED <<tasks, activities, clock, starting>>

\* start_agent(name) with name already in self.agents: only the presence
\* notification, through the registered agent.
start_agent_running(name, send_ok, db_up) ==
    /\ name \in DOMAIN agents
    /\ LET i == agents[name]
           s == send_slack_message(instances[i], clock, send_ok)
       IN  /\ instances' = [instances EXCEPT ![i] = s.st]
           /\ Notify(i, instances[i], send_ok, db_up)
           /\ agent_states' =
                 IF s.ret THEN save_state(agent_states, i, s.st)
                          ELSE agent_states
           /\ last' = Call("start_agent", "None",
                           SendCalls(instances[i], send_ok))
    /\ UNCHANGED <<agents, n_created, tasks, starting>>

\* A stop that a failed departure notification ends: the agent is neither
\* shut down nor taken out of the registry.
stop_agent_stops_at_failure(name, send_ok, db_up) ==
    IF name \in DOMAIN agents /\ (send_ok \/ ~instances[agents[name]].slack_client)
    THEN LET i == agents[name]
             s == send_slack_message(instances[i], clock, send_ok)
             st2 == s.st
         IN  /\ instances' = Del(instances, i)
             /\ activities' = sent_activity(activities, instances[i],
                                            send_ok, db_up)
             /\ clock' = clock + Len(s.entries)
             /\ ctx_log' = Del(ctx_log, i)
             /\ agent_states' = save_state(agent_states, i, st2)
             /\ agents' = Del(agents, name)
             /\ last' = Call("stop_agent", "None",
                             SendCalls(instances[i], send_ok) \cup
                             {"shutdown", "store_agent_state"} \cup
                             (IF instances[i].slack_client
                              THEN {"slack_stop"} ELSE {}))
             /\ UNCHANGED <<n_created, tasks, starting>>
    ELSE /\ last' = Call("stop_agent", "None",
                         IF name \in DOMAIN agents THEN {"send_message"}
                         ELSE {})
         /\ UNCHANGED <<agents, instances, n_created, tasks, activities,
                        agent_states, clock, starting, ctx_log>>

\* A stop that logs the departure before it looks the name up.
stop_agent_logs_first(name, send_ok, db_up) ==
    IF name \in DOMAIN agents
    THEN LET i == agents[name]
             s == send_slack_message(instances[i], clock, send_ok)
             st2 == s.st
         IN  /\ instances' = Del(instances, i)
             /\ activities' = sent_activity(activities, instances[i],
                                            send_ok, db_up)
             /\ clock' = clock + Len(s.entries)
             /\ ctx_log' = Del(ctx_log, i)
             /\ agent_states' = save_state(agent_states, i, st2)
             /\ agents' = Del(agents, name)
             /\ last' = Call("stop_agent", "None",
                             SendCalls(instances[i], send_ok) \cup
                             {"shutdown", "store_agent_state"} \cup
                             (IF instances[i].slack_client
                              THEN {"slack_stop"} ELSE {}))
             /\ UNCHANGED <<n_created, tasks, starting>>
    ELSE /\ activities' = store_activity(activities, name, "lifecycle",
                                         "stopped", db_up).rows
         /\ last' = Call("stop_agent", "None", {"store_activity"})
         /\ UNCHANGED <<agents, instances, n_created, tasks,
                        agent_states, clock, starting, ctx_log>>

\* stop_agent(name): if name is in self.agents, send the departure
\* notification, await agent.shutdown(), del self.agents[name]; otherwise
\* nothing. None of the awaited calls suspends or raises. The registry
\* held the only reference to the agent object, which goes with the entry.
stop_agent(name, send_ok, db_up) ==
    IF name \in DOMAIN agents
    THEN LET i == agents[name]
             s == send_slack_message(instances[i], clock, send_ok)
             st2 == s.st
         IN  /\ instances' = Del(instances, i)
             /\ activities' = sent_activity(activities, instances[i],
                                            send_ok, db_up)
             /\ clock' = clock + Len(s.entries)
             /\ ctx_log' = Del(ctx_log, i)
             /\ agent_states' = save_state(agent_states, i, st2)
             /\ agents' = Del(agents, name)
             /\ last' = Call("stop_agent", "None",
                             SendCalls(instances[i], send_ok) \cup
                             {"shutdown", "store_agent_state"} \cup
                             (IF instances[i].slack_client
                              THEN {"slack_stop"} ELSE {}))
             /\ UNCHANGED <<n_created, tasks, starting>>
    ELSE /\ last' = Call("stop_agent", "None", {})
         /\ UNCHANGED <<agents, instances, n_created, tasks, activities,
                        agent_states, clock, starting, ctx_log>>

\* The collaborator calls of stop_agent for a registered agent, in program
\* order: the departure notification when the agent has a Slack client
\* (send_message, and on success its activity insert and the state save of
\* the context append), then agent.shutdown() (slack_client.stop() when
\* there is a client, then the final _save_state), then
\* "del self.agents[agent_name]".
stop_agent_steps(st, send_ok) ==
    (IF ~st.slack_client THEN << >>
     ELSE IF send_ok
          THEN <<"send_message", "store_activity", "store_agent_state">>
          ELSE <<"send_message">>)
    \o <<"shutdown">>
    \o (IF st.slack_client THEN <<"slack_stop">> ELSE << >>)
    \o <<"store_agent_state", "del">>

\* A status that indexes self.agents without the membership test and
\* without the try, so that a missing name is a KeyError for the caller.
get_agent_status_unguarded(name, psutil_ok) ==
    IF name \in DOMAIN agents
    THEN get_health_status(instances[agents[name]], psutil_ok)
    ELSE [status |-> "KeyError", agent_name |-> name]

\* get_agent_status(name): the agent's health payload, or the not_running
\* payload for a name that is not in self.agents.
get_agent_status(name, psutil_ok) ==
    IF name \in DOMAIN agents
    THEN get_health_status(instances[agents[name]], psutil_ok)
    ELSE [status |-> "not_running", agent_name |-> name]

\* get_all_agent_status(): a dict with get_agent_status(name) under the
\* name of every entry of config.agents.
get_all_agent_status(psutil_ok) ==
    [n \in {ConfigOrder[k] : k \in 1..Len(ConfigOrder)} |->
        get_agent_status(n, psutil_ok)]

(* ------------------------------------------------------------------ *)
(* Specification                                                      *)
(* ------------------------------------------------------------------ *)

Init ==
    /\ agents = EmptyMap
    /\ instances = EmptyMap
    /\ n_created = 0
    /\ tasks = EmptyMap
    /\ activities = {}
    /\ agent_states = EmptyMap
    /\ clock = 0
    /\ starting = {}
    /\ ctx_log = EmptyMap
    /\ last = NoCall
    /\ in_flight = {}
    /\ returned = << >>
    /\ sessions = {}

\* Whether the run may still append k entries.
Room(k) == clock + k <= MaxAppends

\* The calls made one at a time on the runner and on its agents; none of
\* them leaves an AgentRunner coroutine other than start_agent in flight.
Next ==
    \/ \E n \in AgentNames, tokens \in BOOLEAN :
          /\ n \in ConfiguredAgents => n_created < Len(Uuids)
          /\ start_agent_new(n, tokens)
          /\ UNCHANGED <<in_flight, returned, sessions>>
    \/ \E p \in starting, send_ok, db_up \in BOOLEAN :
          /\ send_ok => Room(1)
          /\ start_agent_resume(p, send_ok, db_up)
          /\ UNCHANGED <<in_flight, returned, sessions>>
    \/ \E n \in AgentNames, send_ok, db_up \in BOOLEAN :
          /\ send_ok => Room(1)
          /\ start_agent_running(n, send_ok, db_up)
          /\ UNCHANGED <<in_flight, returned, sessions>>
    \/ \E n \in DOMAIN agents, send_ok, db_up \in BOOLEAN :
          /\ send_ok => Room(1)
          /\ stop_agent(n, send_ok, db_up)
          /\ UNCHANGED <<in_flight, returned, sessions>>
    \/ \E n \in AgentNames \ DOMAIN agents :
          \* no notification is attempted, so neither outcome is read
          /\ stop_agent(n, FALSE, FALSE)
          /\ UNCHANGED <<in_flight, returned, sessions>>
    \/ \E i \in Registered, task \in TaskInputs, db_up \in BOOLEAN :
          /\ db_up => Room(1)
          /\ assign_task(i, task, db_up)
          /\ UNCHANGED <<in_flight, returned, sessions>>
    \/ \E i \in Registered, t \in TaskIds, db_up \in BOOLEAN :
          /\ db_up => Room(1)
          /\ complete_task(i, t, db_up)
          /\ UNCHANGED <<in_flight, returned, sessions>>
    \/ \E i \in Registered, target \in CollabTargets,
          rt \in RequestTypes, db_up \in BOOLEAN :
          /\ db_up => Room(1)
          /\ request_collaboration(i, target, rt, db_up)
          /\ UNCHANGED <<in_flight, returned, sessions>>
    \/ \E i \in Registered, ai_ok, db_up \in BOOLEAN :
          /\ Room(2)
          /\ process_message(i, ai_ok, db_up)
          /\ UNCHANGED <<in_flight, returned, sessions>>
    \/ \E i \in Registered :
          /\ process_message_bad_type(i)
          /\ UNCHANGED <<in_flight, returned, sessions>>
    \/ \E i \in Registered, send_ok, db_up \in BOOLEAN :
          /\ send_ok => Room(1)
          /\ slack_message(i, send_ok, db_up)
          /\ UNCHANGED <<in_flight, returned, sessions>>

Spec == Init /\ [][Next]_vars

(* ------------------------------------------------------------------ *)
(* SpecCtx: one agent, started with a Slack client, fills its context *)
(* window past its capacity. The run opens with process_message calls *)
(* and ends with MixedTail entries from any operation.                *)
(* ------------------------------------------------------------------ *)

CtxHorizon == ContextCapacity + MaxOverflow

InitCtx ==
    /\ agents = Put(EmptyMap, "alice", Uuids[1])
    /\ instances = Put(EmptyMap, Uuids[1],
                       [InitialState("alice") EXCEPT !.slack_client = TRUE])
    /\ n_created = 1
    /\ tasks = EmptyMap
    /\ activities = {}
    /\ agent_states = EmptyMap
    /\ clock = 0
    /\ starting = {}
    /\ ctx_log = Put(EmptyMap, Uuids[1], << >>)
    /\ last = NoCall
    /\ in_flight = {}
    /\ returned = << >>
    /\ sessions = {}

RoomCtx(k) == clock + k <= CtxHorizon

InTail == clock + MixedTail >= CtxHorizon

NextCtx ==
    \/ \E i \in Registered, ai_ok \in BOOLEAN :
          /\ RoomCtx(2)
          /\ ~InTail => ai_ok
          /\ process_message(i, ai_ok, TRUE)
          /\ UNCHANGED <<in_flight, returned, sessions>>
    \/ \E i \in Registered, task \in TaskInputs :
          /\ InTail /\ RoomCtx(1)
          /\ assign_task(i, task, TRUE)
          /\ UNCHANGED <<in_flight, returned, sessions>>
    \/ \E i \in Registered, t \in TaskIds :
          /\ InTail /\ RoomCtx(1)
          /\ complete_task(i, t, TRUE)
          /\ UNCHANGED <<in_flight, returned, sessions>>
    \/ \E i \in Registered, target \in CollabTargets :
          /\ InTail /\ RoomCtx(1)
          /\ request_collaboration(i, target, "code_review", TRUE)
          /\ UNCHANGED <<in_flight, returned, sessions>>
    \/ \E i \in Registered :
          /\ InTail /\ RoomCtx(1)
          /\ slack_message(i, TRUE, TRUE)
          /\ UNCHANGED <<in_flight, returned, sessions>>

SpecCtx == InitCtx /\ [][NextCtx]_vars

(* ------------------------------------------------------------------ *)
(* AgentRunner coroutines that span several steps (src/agents/main.py) *)
(* asyncio runs one coroutine at a time and switches only where one   *)
(* suspends: in "await self.slack_client.start()" and in              *)
(* "await asyncio.sleep(2)". A coroutine in phase "run" holds the     *)
(* event loop; one in phase "sleep" or "slack_start" is suspended.    *)
(* ------------------------------------------------------------------ *)

base_vars == <<agents, instances, n_created, tasks, activities,
               agent_states, clock, starting, ctx_log, last>>

\* A coroutine's frame. prior, snapshot and stopped are history: the agent
\* object a restart stopped, the names stop_all set out to stop, and the
\* names other callers stopped while this coroutine was in flight.
Frame ==
    [op |-> "-", name |-> None, phase |-> "run", id |-> None, idx |-> 0,
     todo |-> {}, prior |-> << >>, snapshot |-> {}, stopped |-> {}]

\* Whether no coroutine holds the event loop.
LoopFree == \A r \in in_flight : r.phase # "run"

\* The agent objects whose slack_client.start() one of the frames awaits.
AwaitedIds == {r.id : r \in {q \in in_flight : q.phase = "slack_start"}}

\* The frames after some caller stopped agent name.
Stopped(frames, name) ==
    {[r EXCEPT !.stopped = @ \cup {name}] : r \in frames}

\* The coroutine of frame r returns.
Returns(r) ==
    /\ in_flight' = in_flight \ {r}
    /\ returned' = <<r>>

\* The coroutine of frame r goes on as frame q.
GoesOn(r, q) ==
    /\ in_flight' = (in_flight \ {r}) \cup {q}
    /\ returned' = << >>

\* restart_agent(name), up to its sleep: stop_agent(name), then
\* "await asyncio.sleep(2)".
restart_agent_stop(name, send_ok, db_up) ==
    /\ stop_agent(name, send_ok, db_up)
    /\ in_flight' =
          (IF name \in DOMAIN agents THEN Stopped(in_flight, name)
                                     ELSE in_flight)
          \cup {[Frame EXCEPT
                   !.op = "restart_agent", !.name = name, !.phase = "sleep",
                   !.prior = IF name \in DOMAIN agents
                             THEN <<instances[agents[name]]>> ELSE << >>]}
    /\ returned' = << >>

\* A restart that returns after its sleep without starting the agent.
restart_agent_wake_no_start(r, tokens, send_ok, db_up) ==
    /\ r \in in_flight
    /\ r.op = "restart_agent"
    /\ r.phase = "sleep"
    /\ Returns(r)
    /\ UNCHANGED base_vars

\* restart_agent after the sleep: start_agent(name), which either runs to
\* its end (name registered meanwhile, unknown name, or no Slack tokens) or
\* suspends in slack_client.start().
restart_agent_wake(r, tokens, send_ok, db_up) ==
    /\ r \in in_flight
    /\ r.op = "restart_agent"
    /\ r.phase = "sleep"
    /\ IF r.name \in DOMAIN agents
       THEN /\ start_agent_running(r.name, send_ok, db_up)
            /\ Returns(r)
       ELSE /\ start_agent_new(r.name, tokens)
            /\ IF r.name \in ConfiguredAgents /\ tokens
               THEN GoesOn(r, [r EXCEPT !.phase = "slack_start",
                                        !.id = Uuids[n_created + 1]])
               ELSE Returns(r)

\* restart_agent when slack_client.start() is over: the rest of
\* start_agent, then the return.
restart_agent_resume(r, send_ok, db_up) ==
    /\ r \in in_flight
    /\ r.op = "restart_agent"
    /\ r.phase = "slack_start"
    /\ start_agent_resume([name |-> r.name, id |-> r.id], send_ok, db_up)
    /\ Returns(r)

\* start_all_agents is called: the loop over config.agents begins.
start_all_agents_begin ==
    /\ in_flight' = in_flight \cup
          {[Frame EXCEPT !.op = "start_all_agents", !.idx = 1]}
    /\ returned' = << >>
    /\ UNCHANGED base_vars

\* One turn of the loop: a name already in self.agents is passed over;
\* otherwise start_agent(name), which runs to its end or suspends in
\* slack_client.start().
start_all_agents_step(r, tokens) ==
    /\ r \in in_flight
    /\ r.op = "start_all_agents"
    /\ r.phase = "run"
    /\ r.idx <= Len(ConfigOrder)
    /\ LET name == ConfigOrder[r.idx]
       IN  IF name \in DOMAIN agents
           THEN /\ UNCHANGED base_vars
                /\ GoesOn(r, [r EXCEPT !.idx = @ + 1])
           ELSE /\ start_agent_new(name, tokens)
                /\ IF tokens
                   THEN GoesOn(r, [r EXCEPT !.phase = "slack_start",
                                            !.id = Uuids[n_created + 1]])
                   ELSE GoesOn(r, [r EXCEPT !.idx = @ + 1])

\* A loop that a failed presence notification ends: the agents after the
\* one whose notification failed are not started.
start_all_agents_resume_aborts(r, send_ok, db_up) ==
    /\ r \in in_flight
    /\ r.op = "start_all_agents"
    /\ r.phase = "slack_start"
    /\ start_agent_resume([name |-> ConfigOrder[r.idx], id |-> r.id],
                          send_ok, db_up)
    /\ GoesOn(r, [r EXCEPT !.phase = "run", !.id = None,
                           !.idx = IF send_ok THEN @ + 1
                                   ELSE Len(ConfigOrder) + 1])

\* slack_client.start() is over for the agent start_all_agents is starting:
\* the rest of its start_agent, then the next turn of the loop.
start_all_agents_resume(r, send_ok, db_up) ==
    /\ r \in in_flight
    /\ r.op = "start_all_agents"
    /\ r.phase = "slack_start"
    /\ start_agent_resume([name |-> ConfigOrder[r.idx], id |-> r.id],
                          send_ok, db_up)
    /\ GoesOn(r, [r EXCEPT !.phase = "run", !.id = None, !.idx = @ + 1])

\* The loop is over: start_all_agents returns.
start_all_agents_return(r) ==
    /\ r \in in_flight
    /\ r.op = "start_all_agents"
    /\ r.phase = "run"
    /\ r.idx > Len(ConfigOrder)
    /\ Returns(r)
    /\ UNCHANGED base_vars

\* stop_all_agents is called: it copies the registered names,
\* list(self.agents.keys()).
stop_all_agents_begin ==
    /\ in_flight' = in_flight \cup
          {[Frame EXCEPT !.op = "stop_all_agents",
                         !.todo = DOMAIN agents,
                         !.snapshot = DOMAIN agents]}
    /\ returned' = << >>
    /\ UNCHANGED base_vars

\* One turn of its loop: stop_agent(name), which never suspends.
stop_all_agents_step(r, name, send_ok, db_up) ==
    /\ r \in in_flight
    /\ r.op = "stop_all_agents"
    /\ name \in r.todo
    /\ stop_agent(name, send_ok, db_up)
    /\ in_flight' =
          (IF name \in DOMAIN agents THEN Stopped(in_flight \ {r}, name)
                                     ELSE in_flight \ {r})
          \cup {[r EXCEPT !.todo = @ \ {name}]}
    /\ returned' = << >>

\* The loop is over: stop_all_agents returns.
stop_all_agents_return(r) ==
    /\ r \in in_flight
    /\ r.op = "stop_all_agents"
    /\ r.todo = {}
    /\ Returns(r)
    /\ UNCHANGED base_vars

\* initialize_agent(name) called on its own: _get_agent_config raises for an
\* unknown name and the method re-raises; otherwise it builds a BaseAgent,
\* whether or not name is in self.agents, and initializes its integrations,
\* suspending in slack_client.start() when there are tokens; without tokens
\* it goes straight on to "self.agents[agent_name] = agent" and returns the
\* agent.
initialize_agent(name, tokens) ==
    LET i == Uuids[n_created + 1]
        st0 == [InitialState(name) EXCEPT !.slack_client = tokens]
        found == get_agent_state(agent_states, i)
    IN  IF name \notin ConfiguredAgents
        THEN /\ last' = Call("initialize_agent", "ValueError", {})
             /\ returned' = << >>
             /\ UNCHANGED <<agents, instances, n_created, tasks, activities,
                            agent_states, clock, starting, ctx_log,
                            in_flight>>
        ELSE /\ n_created' = n_created + 1
             /\ instances' = instances @@ (i :> st0)
             /\ ctx_log' = ctx_log @@ (i :> << >>)
             /\ agent_states' =
                   IF found = None
                   THEN save_state(agent_states, i, st0)
                   ELSE agent_states
             /\ returned' = << >>
             /\ IF tokens
                THEN /\ in_flight' = in_flight \cup
                           {[Frame EXCEPT !.op = "initialize_agent",
                                          !.name = name,
                                          !.phase = "slack_start",
                                          !.id = i]}
                     /\ last' = NoCall
                     /\ UNCHANGED agents
                ELSE /\ agents' = Put(agents, name, i)
                     /\ last' = Call("initialize_agent", i,
                                     {"store_agent_state"})
                     /\ UNCHANGED in_flight
             /\ UNCHANGED <<tasks, activities, clock, starting>>

\* The rest of a suspended initialize_agent: the agent is put in the
\* registry under its name, replacing whatever was there, and returned.
initialize_agent_resume(r) ==
    /\ r \in in_flight
    /\ r.op = "initialize_agent"
    /\ r.phase = "slack_start"
    /\ agents' = Put(agents, r.name, r.id)
    /\ last' = Call("initialize_agent", r.id, {"slack_start"})
    /\ Returns(r)
    /\ UNCHANGED <<instances, n_created, tasks, activities, agent_states,
                   clock, starting, ctx_log>>

(* ------------------------------------------------------------------ *)
(* SpecRunner: the lifecycle calls of AgentRunner, interleaved where  *)
(* their coroutines suspend, with assign_task giving the agents some  *)
(* state to lose or keep.                                             *)
(* ------------------------------------------------------------------ *)

\* Whether a coroutine of this kind (and, for one name, on this name) is in
\* flight. The runs have at most one of each at a time.
InFlight(op, name) ==
    \E r \in in_flight : r.op = op /\ r.name = name

\* Whether a new agent object can still be built for name.
CanBuild(name) == name \in ConfiguredAgents => n_created < Len(Uuids)

\* Whether one more coroutine may be put in flight.
MayCall == LoopFree /\ Cardinality(in_flight) < MaxInFlight

\* The task the runs of SpecRunner assign.
RunnerTasks ==
    {[task_id |-> "t1", assigned_agent |-> "alice", status |-> "assigned"]}

NextRunner ==
    \/ \E n \in AgentNames, tokens \in BOOLEAN :
          /\ LoopFree /\ CanBuild(n)
          /\ start_agent_new(n, tokens)
          /\ in_flight' = in_flight /\ returned' = << >>
          /\ UNCHANGED sessions
    \/ \E p \in starting, send_ok, db_up \in BOOLEAN :
          /\ LoopFree /\ p.id \notin AwaitedIds
          /\ send_ok => Room(1)
          /\ start_agent_resume(p, send_ok, db_up)
          /\ UNCHANGED sessions
          /\ in_flight' = in_flight /\ returned' = << >>
    \/ \E n \in DOMAIN agents, send_ok, db_up \in BOOLEAN :
          /\ LoopFree
          /\ send_ok => Room(1)
          /\ start_agent_running(n, send_ok, db_up)
          /\ in_flight' = in_flight /\ returned' = << >>
          /\ UNCHANGED sessions
    \/ \E n \in DOMAIN agents, send_ok, db_up \in BOOLEAN :
          /\ LoopFree
          /\ send_ok => Room(1)
          /\ stop_agent(n, send_ok, db_up)
          /\ UNCHANGED sessions
          /\ in_flight' = Stopped(in_flight, n) /\ returned' = << >>
    \/ \E n \in AgentNames \ DOMAIN agents :
          /\ LoopFree
          /\ stop_agent(n, FALSE, FALSE)
          /\ in_flight' = in_flight /\ returned' = << >>
          /\ UNCHANGED sessions
    \/ \E i \in Registered, task \in RunnerTasks :
          /\ LoopFree /\ Room(1)
          /\ assign_task(i, task, TRUE)
          /\ in_flight' = in_flight /\ returned' = << >>
          /\ UNCHANGED sessions
    \/ \E n \in AgentNames, send_ok, db_up \in BOOLEAN :
          /\ MayCall /\ ~InFlight("restart_agent", n)
          /\ send_ok => Room(1)
          /\ restart_agent_stop(n, send_ok, db_up)
          /\ UNCHANGED sessions
    \/ \E r \in in_flight, tokens, send_ok, db_up \in BOOLEAN :
          /\ LoopFree /\ CanBuild(r.name)
          /\ send_ok => Room(1)
          /\ restart_agent_wake(r, tokens, send_ok, db_up)
          /\ UNCHANGED sessions
    \/ \E r \in in_flight, send_ok, db_up \in BOOLEAN :
          /\ LoopFree
          /\ send_ok => Room(1)
          /\ restart_agent_resume(r, send_ok, db_up)
          /\ UNCHANGED sessions
    \/ /\ MayCall /\ ~InFlight("start_all_agents", None)
       /\ start_all_agents_begin
       /\ UNCHANGED sessions
    \/ \E r \in in_flight, tokens \in BOOLEAN :
          /\ r.idx \in 1..Len(ConfigOrder) => CanBuild(ConfigOrder[r.idx])
          /\ start_all_agents_step(r, tokens)
          /\ UNCHANGED sessions
    \/ \E r \in in_flight, send_ok, db_up \in BOOLEAN :
          /\ LoopFree
          /\ send_ok => Room(1)
          /\ start_all_agents_resume(r, send_ok, db_up)
          /\ UNCHANGED sessions
    \/ \E r \in in_flight :
          /\ start_all_agents_return(r)
          /\ UNCHANGED sessions
    \/ /\ MayCall /\ ~InFlight("stop_all_agents", None)
       /\ stop_all_agents_begin
       /\ UNCHANGED sessions
    \/ \E r \in in_flight, n \in AgentNames, send_ok, db_up \in BOOLEAN :
          /\ send_ok => Room(1)
          /\ stop_all_agents_step(r, n, send_ok, db_up)
          /\ UNCHANGED sessions
    \/ \E r \in in_flight :
          /\ stop_all_agents_return(r)
          /\ UNCHANGED sessions
    \/ \E n \in AgentNames, tokens \in BOOLEAN :
          /\ MayCall /\ CanBuild(n) /\ ~InFlight("initialize_agent", n)
          /\ initialize_agent(n, tokens)
          /\ UNCHANGED sessions
    \/ \E r \in in_flight :
          /\ LoopFree
          /\ initialize_agent_resume(r)
          /\ UNCHANGED sessions

SpecRunner == Init /\ [][NextRunner]_vars

(* ------------------------------------------------------------------ *)
(* SpecLife: start_agent, stop_agent and restart_agent on the same    *)
(* names, interleaved where they suspend, with the agents' Socket     *)
(* Mode sessions followed: slack_client.start() may return or raise,  *)
(* and so may the handler's close() in slack_client.stop(). The other *)
(* specifications run against an endpoint that accepts no connection, *)
(* so that no session ever opens in them.                             *)
(* ------------------------------------------------------------------ *)

\* initialize_integrations is over for agent object i: its
\* slack_client.start() returned or raised.
Connects(i, start_ok) ==
    sessions' = slack_client_start(sessions, i, start_ok)

\* stop_agent(name) has run: the shutdown of the agent registered under
\* name, if there is one.
Releases(name, close_ok) ==
    sessions' = IF name \in DOMAIN agents
                THEN shutdown(sessions, agents[name],
                              instances[agents[name]], close_ok)
                ELSE sessions

NextLife ==
    \/ \E n \in AgentNames, tokens \in BOOLEAN :
          /\ LoopFree /\ CanBuild(n)
          /\ start_agent_new(n, tokens)
          /\ in_flight' = in_flight /\ returned' = << >>
          /\ UNCHANGED sessions
    \/ \E p \in starting, start_ok, send_ok, db_up \in BOOLEAN :
          /\ LoopFree /\ p.id \notin AwaitedIds
          /\ send_ok => Room(1)
          /\ start_agent_resume(p, send_ok, db_up)
          /\ Connects(p.id, start_ok)
          /\ in_flight' = in_flight /\ returned' = << >>
    \/ \E n \in DOMAIN agents, send_ok, db_up \in BOOLEAN :
          /\ LoopFree
          /\ send_ok => Room(1)
          /\ start_agent_running(n, send_ok, db_up)
          /\ in_flight' = in_flight /\ returned' = << >>
          /\ UNCHANGED sessions
    \/ \E n \in DOMAIN agents, send_ok, db_up, close_ok \in BOOLEAN :
          /\ LoopFree
          /\ send_ok => Room(1)
          /\ stop_agent(n, send_ok, db_up)
          /\ Releases(n, close_ok)
          /\ in_flight' = Stopped(in_flight, n) /\ returned' = << >>
    \/ \E n \in AgentNames \ DOMAIN agents :
          /\ LoopFree
          /\ stop_agent(n, FALSE, FALSE)
          /\ in_flight' = in_flight /\ returned' = << >>
          /\ UNCHANGED sessions
    \/ \E n \in AgentNames, send_ok, db_up, close_ok \in BOOLEAN :
          /\ MayCall /\ ~InFlight("restart_agent", n)
          /\ send_ok => Room(1)
          /\ restart_agent_stop(n, send_ok, db_up)
          /\ Releases(n, close_ok)
    \/ \E r \in in_flight, tokens, send_ok, db_up \in BOOLEAN :
          /\ LoopFree /\ CanBuild(r.name)
          /\ send_ok => Room(1)
          /\ restart_agent_wake(r, tokens, send_ok, db_up)
          /\ UNCHANGED sessions
    \/ \E r \in in_flight, start_ok, send_ok, db_up \in BOOLEAN :
          /\ LoopFree
          /\ send_ok => Room(1)
          /\ restart_agent_resume(r, send_ok, db_up)
          /\ Connects(r.id, start_ok)

SpecLife == Init /\ [][NextLife]_vars

(* ------------------------------------------------------------------ *)
(* SpecTasks: the task ledger under assign_task and complete_task     *)
(* calls on several agents, tasks created through the API, and agents *)
(* stopped and started again.                                         *)
(* ------------------------------------------------------------------ *)

\* The TaskAssignment values of these runs: two ids, each assignable to
\* either configured agent.
LedgerTasks ==
    [task_id : {"t1", "t2"}, assigned_agent : ConfiguredAgents,
     status : {"assigned"}]

\* POST /tasks (api.py create_task): a TaskAssignment with a fresh uuid4 as
\* task_id and status "assigned" goes straight to store_task; no agent is
\* told. The answer is 200 with the task, or 500.
create_task(task, db_up) ==
    LET r == store_task(tasks, task, db_up)
    IN  /\ task.task_id \notin DOMAIN tasks
        /\ task.status = "assigned"
        /\ tasks' = r.rows
        /\ last' = Call("create_task", IF r.ok THEN "200" ELSE "500",
                        {"store_task"})
        /\ UNCHANGED <<agents, instances, n_created, activities,
                       agent_states, clock, starting, ctx_log>>

\* Whether the run may still append k entries.
RoomTasks(k) == clock + k <= MaxLedgerAppends

NextTasks ==
    \/ \E n \in ConfiguredAgents :
          /\ CanBuild(n)
          /\ start_agent_new(n, FALSE)
          /\ UNCHANGED <<in_flight, returned, sessions>>
    \/ \E n \in DOMAIN agents :
          /\ stop_agent(n, FALSE, FALSE)
          /\ UNCHANGED <<in_flight, returned, sessions>>
    \/ \E i \in Registered, task \in LedgerTasks, db_up \in BOOLEAN :
          /\ store_task(tasks, task, db_up).ok => RoomTasks(1)
          /\ assign_task(i, task, db_up)
          /\ UNCHANGED <<in_flight, returned, sessions>>
    \/ \E i \in Registered, t \in {"t1", "t2"}, db_up \in BOOLEAN :
          /\ db_up => RoomTasks(1)
          /\ complete_task(i, t, db_up)
          /\ UNCHANGED <<in_flight, returned, sessions>>
    \/ \E task \in LedgerTasks, db_up \in BOOLEAN :
          /\ create_task(task, db_up)
          /\ UNCHANGED <<in_flight, returned, sessions>>

SpecTasks == Init /\ [][NextTasks]_vars

(* ------------------------------------------------------------------ *)
(* Claims                                                             *)
(* ------------------------------------------------------------------ *)

\* C1: in every reachable state every agent object has current_task set
\* exactly when its task_status is "working".
C1_CurrentTaskIffWorking ==
    \A i \in DOMAIN instances :
        (instances[i].current_task # None)
            <=> (instances[i].task_status = "working")

\* C1 witness: an agent that took a task and is working on it while another
\* agent is idle.
C1_Witness ==
    \E i, j \in DOMAIN instances :
        /\ instances[i].current_task \in TaskIds
        /\ instances[i].task_status = "working"
        /\ instances[j].current_task = None
        /\ instances[j].task_status = "idle"

\* C2: the window never holds more than 50 entries and is always the most
\* recently appended entries, at most 50 of them, in the order appended.
C2_WindowIsRecentSuffix ==
    \A i \in DOMAIN instances :
        LET w == instances[i].context_window
            h == ctx_log[i]
        IN  /\ Len(w) <= ContextCapacity
            /\ Len(w) = IF Len(h) < ContextCapacity THEN Len(h)
                        ELSE ContextCapacity
            /\ \A k \in 1..Len(w) : w[k] = h[Len(h) - Len(w) + k]

\* C2 witness: more than 50 entries were appended, by several operations.
C2_Witness ==
    \E i \in DOMAIN instances :
        /\ Len(ctx_log[i]) > ContextCapacity
        /\ Len(instances[i].context_window) = ContextCapacity
        /\ \E k \in 1..ContextCapacity :
              instances[i].context_window[k].content.type = "task_completed"
        /\ \E k \in 1..ContextCapacity :
              instances[i].context_window[k].content.type
                  = "slack_message_sent"

\* The formulas below name a step by the action that takes it; every action
\* records its operation in last, so last'.op narrows the steps to look at.

\* The window's newest entry has this type and reference.
NewestIs(st, type, ref) ==
    /\ Len(st.context_window) > 0
    /\ st.context_window[Len(st.context_window)].content
          = [type |-> type, ref |-> ref]

\* C3 (as claimed): whenever assign_task(T) succeeds, the health payload
\* read next reports active_tasks = 1, the agent is working with
\* current_task = T.task_id, the newest window entry is task_assigned, and
\* the stored Task row has status "assigned".
C3_AssignPostconditions ==
    [][\A i \in Registered, task \in TaskInputs :
          (assign_task(i, task, TRUE) /\ store_task(tasks, task, TRUE).ok)
          => /\ get_health_status(instances'[i], TRUE).active_tasks = 1
             /\ instances'[i].task_status = "working"
             /\ instances'[i].current_task = task.task_id
             /\ NewestIs(instances'[i], "task_assigned", task.task_id)
             /\ tasks'[task.task_id].status = "assigned"]_vars

\* C4: when the persistence call of assign_task, complete_task or
\* request_collaboration fails, the call returns False and leaves every
\* agent's status, current_task and context window as they were. Stated
\* by contraposition: a step of one of the three that changes an agent, or
\* does not return False, is not a call whose persistence call failed.
C4_PersistenceFailureLeavesState ==
    [][(last'.ret # "False" \/ instances' # instances) =>
       /\ last'.op = "assign_task" =>
          \A i \in Registered, task \in TaskInputs, db_up \in BOOLEAN :
             ~(~store_task(tasks, task, db_up).ok
                 /\ assign_task(i, task, db_up))
       /\ last'.op = "complete_task" =>
          \A i \in Registered, t \in TaskIds :
             ~complete_task(i, t, FALSE)
       /\ last'.op = "request_collaboration" =>
          \A i \in Registered, target \in CollabTargets,
             rt \in RequestTypes \cap MessageTypes :
             ~request_collaboration(i, target, rt, FALSE)]_vars

\* C4 witness: an assign_task whose store_task failed has just returned
\* False to an agent that is working on a task and has a window entry.
C4_Witness ==
    /\ last = Call("assign_task", "False", {"store_task"})
    /\ \E i \in Registered :
          /\ instances[i].task_status = "working"
          /\ Len(instances[i].context_window) > 0

\* C5: complete_task(T.id) on an agent whose current_task is T.id, with the
\* ledger update succeeding, returns True, unsets current_task, makes the
\* agent idle, leaves T's row completed and appends a task_completed entry.
C5_CompleteCurrentTask ==
    [][last'.op = "complete_task" =>
       \A i \in Registered, t \in TaskIds :
          (complete_task(i, t, TRUE) /\ instances[i].current_task = t)
          => /\ last'.ret = "True"
             /\ instances'[i].current_task = None
             /\ instances'[i].task_status = "idle"
             /\ t \in DOMAIN tasks'
             /\ tasks'[t].status = "completed"
             /\ ctx_log'[i] = Append(ctx_log[i],
                   ContextEntry(clock, "task_completed", t))
             /\ NewestIs(instances'[i], "task_completed", t)]_vars

\* C5 witness: an agent took a task and then completed it.
C5_Witness ==
    /\ last.op = "complete_task"
    /\ last.ret = "True"
    /\ \E i \in Registered, t \in TaskIds :
          /\ Len(instances[i].context_window) = 2
          /\ instances[i].context_window[1].content
                = [type |-> "task_assigned", ref |-> t]
          /\ instances[i].context_window[2].content
                = [type |-> "task_completed", ref |-> t]
          /\ instances[i].task_status = "idle"
          /\ tasks[t].status = "completed"

\* C6 (as claimed): complete_task(T.id) on an agent whose current_task is
\* not T.id, with the ledger update succeeding, leaves the agent's status,
\* current_task and context window unchanged and T's row completed.
C6_AsClaimed ==
    [][\A i \in Registered, t \in TaskIds :
          (complete_task(i, t, TRUE) /\ instances[i].current_task # t)
          => /\ instances'[i] = instances[i]
             /\ t \in DOMAIN tasks => tasks'[t].status = "completed"]_vars

\* C6 (amended): complete_task(T.id) on an agent whose current_task is not
\* T.id, with the ledger update succeeding, returns True and leaves the
\* agent's status and current_task unchanged, but appends a task_completed
\* entry to the context window; T's row, when there is one, is completed,
\* and no row is created.
C6_CompleteOtherTask ==
    [][last'.op = "complete_task" =>
       \A i \in Registered, t \in TaskIds :
          (complete_task(i, t, TRUE) /\ instances[i].current_task # t)
          => /\ last'.ret = "True"
             /\ instances'[i].task_status = instances[i].task_status
             /\ instances'[i].current_task = instances[i].current_task
             /\ ctx_log'[i] = Append(ctx_log[i],
                   ContextEntry(clock, "task_completed", t))
             /\ NewestIs(instances'[i], "task_completed", t)
             /\ DOMAIN tasks' = DOMAIN tasks
             /\ t \in DOMAIN tasks => tasks'[t].status = "completed"
             /\ \A u \in DOMAIN tasks \ {t} : tasks'[u] = tasks[u]]_vars

\* C6 witness: an agent with no current task, which never took one itself,
\* completed a task that another agent had stored in the ledger.
C6_Witness ==
    /\ last.op = "complete_task"
    /\ last.ret = "True"
    /\ \E i \in Registered, u \in TaskIds :
          /\ instances[i].current_task = None
          /\ instances[i].task_status = "idle"
          /\ Len(instances[i].context_window) = 1
          /\ NewestIs(instances[i], "task_completed", u)
          /\ u \in DOMAIN tasks
          /\ tasks[u].status = "completed"

\* C7 (as claimed): complete_task with a task id that has no row in the
\* ledger returns False and changes neither the ledger nor any agent.
C7_UnknownTaskRejected ==
    [][\A i \in Registered, t \in TaskIds :
          (complete_task(i, t, TRUE) /\ t \notin DOMAIN tasks)
          => /\ last'.ret = "False"
             /\ tasks' = tasks
             /\ instances' = instances]_vars

\* C8 (as claimed): a successful assign_task(T), with T carrying status
\* "assigned", leaves T's row with status "working".
C8_AsClaimed ==
    [][\A i \in Registered, task \in TaskInputs :
          (/\ assign_task(i, task, TRUE)
           /\ store_task(tasks, task, TRUE).ok
           /\ task.status = "assigned")
          => tasks'[task.task_id].status = "working"]_vars

\* C8 (amended): a successful assign_task(T) stores T's row with the status
\* T carries ("assigned" unless the caller set another) and does not promote
\* it to "working"; the only change the core makes to the status of an
\* existing row is to "completed", by a successful complete_task of that
\* task id, from any status.
C8_LedgerTransitions ==
    [][/\ last' = Call("assign_task", "True",
                       {"store_task", "store_agent_state"}) =>
          \A i \in Registered, task \in TaskInputs :
             (store_task(tasks, task, TRUE).ok /\ assign_task(i, task, TRUE))
             => /\ instances'[i].current_task = task.task_id
                /\ tasks'[task.task_id].status = task.status
       /\ tasks' # tasks =>
          \A t \in DOMAIN tasks :
             /\ t \in DOMAIN tasks'
             /\ tasks'[t].status # tasks[t].status
                => /\ tasks'[t].status = "completed"
                   /\ last' = Call("complete_task", "True",
                                   {"update_task_status",
                                    "store_agent_state"})]_vars

\* C8 witness: an agent has just adopted a task whose row is still
\* "assigned" in the ledger.
C8_Witness ==
    /\ last.op = "assign_task"
    /\ last.ret = "True"
    /\ \E i \in Registered, t \in DOMAIN tasks :
          /\ instances[i].current_task = t
          /\ instances[i].task_status = "working"
          /\ NewestIs(instances[i], "task_assigned", t)
          /\ tasks[t].status = "assigned"

\* C9 (as claimed): for a running agent, status(name) shows the agent's
\* runtime status (idle or working).
C9_AsClaimed ==
    \A n \in DOMAIN agents :
        get_agent_status(n, TRUE).status = instances[agents[n]].task_status

\* C9 (amended): for a running agent, status(name) returns the agent's
\* health payload: its status is "healthy" ("error" when the process
\* metrics cannot be read), never idle or working, and it has no
\* current_task field; active_tasks is 0 while the agent is idle (right
\* after start, or after complete_task of its current task) and, while it is
\* working on T, 1 when T.task_id is a non-empty string and 0 when it is the
\* empty string.
C9_StatusIsHealthPayload ==
    \A n \in DOMAIN agents :
        LET h == get_agent_status(n, TRUE)
            e == get_agent_status(n, FALSE)
            st == instances[agents[n]]
        IN  /\ h.status = "healthy"
            /\ e.status = "error"
            /\ "current_task" \notin DOMAIN h
            /\ "current_task" \notin DOMAIN e
            /\ h.agent_name = n
            /\ st.task_status \in {"idle", "working"}
            /\ h.active_tasks =
                  IF st.task_status = "working" /\ st.current_task # ""
                  THEN 1 ELSE 0

\* C9 witness: one running agent has just been given a task with a
\* non-empty id (active_tasks 1) while another, just started, is idle
\* (active_tasks 0).
C9_Witness ==
    \E n, m \in DOMAIN agents :
        /\ NewestIs(instances[agents[n]], "task_assigned", "t1")
        /\ get_agent_status(n, TRUE).active_tasks = 1
        /\ get_agent_status(n, TRUE).status = "healthy"
        /\ instances[agents[m]].context_window = << >>
        /\ get_agent_status(m, TRUE).active_tasks = 0

\* C10: stop(name) for a name that is not in the registry returns normally
\* and changes nothing: the registry and the agent objects are as before,
\* no shutdown is invoked, no notification is sent, no row is written.
\* Stated by contraposition: a stop that made a call or changed anything
\* is not a stop of an unregistered name.
C10_StopUnregisteredIsNoOp ==
    [][(/\ last'.op = "stop_agent"
        /\ ~(/\ last' = Call("stop_agent", "None", {})
             /\ UNCHANGED <<agents, instances, n_created, tasks, activities,
                            agent_states, clock, starting, ctx_log>>))
       => \A n \in AgentNames \ DOMAIN agents, send_ok, db_up \in BOOLEAN :
             ~stop_agent(n, send_ok, db_up)]_vars

\* C10 witness: a second stop in a row: an agent was started and stopped,
\* the registry is empty again, and the latest stop made no call at all.
C10_Witness ==
    /\ last = Call("stop_agent", "None", {})
    /\ n_created > 0
    /\ starting = {}
    /\ DOMAIN agents = {}
    /\ DOMAIN instances = {}

\* The coroutine that returned in the latest step was a call of op.
Returned(op) == returned # << >> /\ returned[1].op = op

\* C11: when restart_agent(name) returns for a configured name, name is in
\* the registry, mapped to a live agent object, whether or not the agent
\* was running when the restart began; the stop, the sleep and the start
\* happened in that order.
C11_RestartLeavesRunning ==
    (Returned("restart_agent") /\ returned[1].name \in ConfiguredAgents)
    => /\ returned[1].name \in DOMAIN agents
       /\ agents[returned[1].name] \in DOMAIN instances
       /\ instances[agents[returned[1].name]].name = returned[1].name
       /\ last.op = "start_agent"

\* C11 witness: a restart of an agent that was running, and working on a
\* task, has returned and the name is registered.
C11_Witness ==
    /\ Returned("restart_agent")
    /\ returned[1].prior # << >>
    /\ returned[1].prior[1].task_status = "working"
    /\ returned[1].name \in DOMAIN agents

\* C12 (as claimed): after restart_agent(name) of an agent that was running,
\* the restarted agent has the status and current_task the stopped agent
\* saved at shutdown, and its context window begins with the stopped
\* agent's.
C12_RestartKeepsState ==
    (/\ Returned("restart_agent")
     /\ returned[1].prior # << >>
     /\ returned[1].name \in DOMAIN agents)
    => LET old == returned[1].prior[1]
           new == instances[agents[returned[1].name]]
       IN  /\ new.task_status = old.task_status
           /\ new.current_task = old.current_task
           /\ Len(new.context_window) >= Len(old.context_window)
           /\ SubSeq(new.context_window, 1, Len(old.context_window))
                 = old.context_window

\* C13 (as claimed): initialize_agent(name) for a name that is already in
\* the registry returns the registered agent, builds no agent object,
\* initializes no integration and leaves the registry as it was.
C13_InitializeIdempotent ==
    [][last'.op \in {"initialize_agent", "-"} =>
       \A n \in DOMAIN agents, tokens \in BOOLEAN :
          initialize_agent(n, tokens)
          => /\ last'.ret = agents[n]
             /\ n_created' = n_created
             /\ in_flight' = in_flight
             /\ agents' = agents]_vars

\* C14: start_agent(name) for a name that is already in the registry builds
\* no agent object, initializes no integration and leaves the registry
\* mapping every name to the agent object it mapped to before.
C14_StartRegisteredKeepsInstance ==
    [][last'.op = "start_agent" =>
       \A n \in DOMAIN agents, send_ok, db_up \in BOOLEAN :
          start_agent_running(n, send_ok, db_up)
          => /\ agents' = agents
             /\ n_created' = n_created
             /\ DOMAIN instances' = DOMAIN instances
             /\ starting' = starting
             /\ "slack_start" \notin last'.calls
             /\ instances'[agents[n]].slack_client
                   = instances[agents[n]].slack_client]_vars

\* C14 witness: a registered agent was started again: its window holds the
\* presence notifications of two starts.
C14_Witness ==
    /\ last.op = "start_agent"
    /\ \E n \in DOMAIN agents :
          LET w == instances[agents[n]].context_window
          IN  /\ Len(w) = 2
              /\ w[1].content.type = "slack_message_sent"
              /\ w[2].content.type = "slack_message_sent"

\* C15: start_agent(name) for a name without an agent configuration
\* returns normally and changes nothing: the registry is as before, no
\* agent object or state row is created, no notification is sent.
C15_StartUnknownChangesNothing ==
    [][last'.op = "start_agent" =>
       \A n \in UnknownAgents, tokens \in BOOLEAN :
          start_agent_new(n, tokens)
          => /\ last' = Call("start_agent", "None", {})
             /\ n \notin DOMAIN agents'
             /\ UNCHANGED <<agents, instances, n_created, tasks, activities,
                            agent_states, clock, starting, ctx_log>>]_vars

\* C15 witness: a start_agent has returned while no agent object was ever
\* built: the start of a name without configuration.
C15_Witness ==
    /\ last = Call("start_agent", "None", {})
    /\ returned = << >>
    /\ n_created = 0
    /\ agents = EmptyMap
    /\ instances = EmptyMap

\* C16 (as claimed): what start_agent returns for a name without an agent
\* configuration differs from the None it returns when the agent was
\* started.
C16_StartReportsFailure ==
    [][last'.op = "start_agent" =>
       \A n \in UnknownAgents, tokens \in BOOLEAN :
          start_agent_new(n, tokens) => last'.ret # "None"]_vars

\* C17: when start_all_agents returns, every configured agent is in the
\* registry, whatever happened to the other agents' Slack start and
\* presence notification, unless another caller stopped it while
\* start_all_agents was suspended; when stop_all_agents returns, every
\* agent that was registered when it began is out of the registry, whatever
\* happened to the other agents' departure notification or shutdown.
C17_AllAgentsIsolated ==
    /\ Returned("start_all_agents")
       => \A n \in ConfiguredAgents :
             n \in DOMAIN agents \/ n \in returned[1].stopped
    /\ Returned("stop_all_agents")
       => \A n \in returned[1].snapshot : n \notin DOMAIN agents

\* C17 witness: start_all_agents has returned with every configured agent
\* registered, one of them with a Slack client whose presence notification
\* failed (a sent one would be in its window).
C17_Witness ==
    /\ Returned("start_all_agents")
    /\ ConfiguredAgents \subseteq DOMAIN agents
    /\ instances[agents[ConfigOrder[1]]].slack_client
    /\ instances[agents[ConfigOrder[1]]].context_window = << >>

\* C18: get_agent_status(name) and get_all_agent_status() always return a
\* payload: not_running for a name that is not in the registry, the health
\* payload for a registered one, an error payload when the health payload
\* cannot be built; get_all_agent_status() has exactly one entry for every
\* configured agent, running or not, and none for any other name.
C18_StatusAlwaysAnswers ==
    \A psutil_ok \in BOOLEAN :
        /\ \A n \in AgentNames :
              LET h == get_agent_status(n, psutil_ok)
              IN  /\ h.agent_name = n
                  /\ h.status = IF n \notin DOMAIN agents THEN "not_running"
                                ELSE IF psutil_ok THEN "healthy"
                                ELSE "error"
        /\ DOMAIN get_all_agent_status(psutil_ok) = ConfiguredAgents
        /\ \A n \in ConfiguredAgents :
              get_all_agent_status(psutil_ok)[n]
                 = get_agent_status(n, psutil_ok)

\* C18 witness: one configured agent is running, the other was stopped and
\* is not; the statuses differ accordingly.
C18_Witness ==
    /\ last.op = "stop_agent"
    /\ "shutdown" \in last.calls
    /\ \E n, m \in ConfiguredAgents :
          /\ get_all_agent_status(TRUE)[n].status = "healthy"
          /\ get_all_agent_status(FALSE)[n].status = "error"
          /\ get_all_agent_status(TRUE)[m].status = "not_running"

\* Whether the store_activity of a process_message has left no row: the
\* agents' only message_processed insert failed.
NoMessageRow ==
    \A a \in activities : a.action # "message_processed"

C20_AsClaimed ==
    [][last'.op = "process_message" =>
       \A i \in Registered, ai_ok \in BOOLEAN :
          process_message(i, ai_ok, TRUE)
          => Len(instances'[i].context_window)
                = Len(instances[i].context_window) + 2]_vars

\* C20: a process_message call appends an incoming_message entry and then
\* an outgoing_message entry carrying the text it returns (the fallback
\* text when the completion failed), after every entry appended before;
\* the window is the last 50 of the old window followed by the two, so it
\* is two entries longer only while that stays within 50, and in it an
\* outgoing entry past the first position directly follows its incoming
\* entry and timestamps increase.
C20_IncomingThenOutgoing ==
    [][last'.op = "process_message" =>
       \A i \in Registered, ai_ok \in BOOLEAN :
          process_message(i, ai_ok, TRUE)
          => LET h == ctx_log[i]
                 h2 == ctx_log'[i]
                 w == instances[i].context_window
                 w2 == instances'[i].context_window
                 n == Len(h)
             IN  /\ Len(h2) = n + 2
                 /\ SubSeq(h2, 1, n) = h
                 /\ h2[n + 1].content.type = "incoming_message"
                 /\ h2[n + 2].content
                       = [type |-> "outgoing_message",
                          ref |-> IF ai_ok THEN "completion"
                                  ELSE "fallback"]
                 /\ last'.ret = h2[n + 2].content.ref
                 /\ w2 = LastK(w \o <<h2[n + 1], h2[n + 2]>>,
                               ContextCapacity)
                 /\ Len(w2) = IF Len(w) + 2 <= ContextCapacity
                              THEN Len(w) + 2 ELSE ContextCapacity
                 /\ \A k \in 2..Len(w2) :
                       /\ w2[k - 1].timestamp < w2[k].timestamp
                       /\ w2[k].content.type = "outgoing_message"
                          => w2[k - 1].content.type = "incoming_message"]_vars

\* C20 witness: a call whose completion failed has returned on a window
\* that was already full; its two entries are the window's newest.
C20_Witness ==
    /\ last.op = "process_message"
    /\ last.ret = "fallback"
    /\ \E i \in Registered :
          LET w == instances[i].context_window
          IN  /\ Len(ctx_log[i]) > ContextCapacity + 1
              /\ Len(w) = ContextCapacity
              /\ w[ContextCapacity - 1].content.type = "incoming_message"
              /\ NewestIs(instances[i], "outgoing_message", "fallback")

\* C21: request_collaboration with a request_type that is not a MessageType
\* member returns False before any persistence call: no activity row is
\* written, no collaboration_requested entry is appended and no agent
\* changes. Stated by contraposition: a request_collaboration step that
\* does not return False, or makes a collaborator call, or changes a table,
\* an agent or the history, is not a call with such a request_type.
C21_MalformedTypeRejectedFirst ==
    [][(/\ last'.op = "request_collaboration"
        /\ \/ last'.ret # "False"
           \/ last'.calls # {}
           \/ activities' # activities
           \/ instances' # instances
           \/ ctx_log' # ctx_log
           \/ agent_states' # agent_states)
       => \A i \in Registered, target \in CollabTargets,
             rt \in RequestTypes \ MessageTypes, db_up \in BOOLEAN :
             ~request_collaboration(i, target, rt, db_up)]_vars

\* C21 witness: a request_collaboration has returned False without making
\* any collaborator call, and the activity table has no collaboration row.
C21_Witness ==
    /\ last = Call("request_collaboration", "False", {})
    /\ Registered # {}
    /\ \A a \in activities : a.activity_type # "collaboration"

\* C22: every stop_agent(name) of a registered agent runs the agent's
\* shutdown, returns None and ends with name out of the registry and the
\* agent object gone, whether or not the departure notification, its
\* activity insert, the release of the Socket Mode session and the final
\* state save succeeded.
C22_StopAlwaysRemoves ==
    [][last'.op = "stop_agent" =>
       \A n \in DOMAIN agents, send_ok, db_up \in BOOLEAN :
          stop_agent(n, send_ok, db_up)
          => /\ last'.ret = "None"
             /\ "shutdown" \in last'.calls
             /\ n \notin DOMAIN agents'
             /\ agents[n] \notin DOMAIN instances']_vars

\* C22 witness: a stop has removed the last registered agent although its
\* notification failed, its session could not be released and no state row
\* was written.
C22_Witness ==
    /\ last.op = "stop_agent"
    /\ {"send_message", "shutdown", "slack_stop"} \subseteq last.calls
    /\ "store_activity" \notin last.calls
    /\ DOMAIN agents = {}
    /\ sessions # {}
    /\ DOMAIN agent_states = {}

\* C23: under any interleaving of start_agent, stop_agent and restart_agent
\* calls, every agent object that was built, had its Socket Mode session
\* opened and has not been shut down is the one the registry holds under
\* its name.
C23_NoInstanceLeftRunning ==
    \A i \in DOMAIN instances :
        i \in sessions =>
            /\ instances[i].name \in DOMAIN agents
            /\ agents[instances[i].name] = i

\* How many task_completed entries for task t the agents have appended.
CompletedEntries(t) ==
    Cardinality({<<i, k>> \in (DOMAIN ctx_log) \X (1..MaxLedgerAppends) :
                    /\ k <= Len(ctx_log[i])
                    /\ ctx_log[i][k].content
                          = [type |-> "task_completed", ref |-> t]})

\* C24: a row of the tasks table whose status is completed stays in the
\* table with its status and every other field the model keeps, whatever
\* is called next: assign_task with its id, complete_task by any agent,
\* a task creation, an agent stopped or started.
C24_CompletedIsFinal ==
    [][\A t \in DOMAIN tasks :
          tasks[t].status = "completed"
          => /\ t \in DOMAIN tasks'
             /\ tasks'[t] = tasks[t]]_vars

\* C24 witness: a task was completed twice and then assigned again in
\* vain; its row is still completed.
C24_Witness ==
    /\ "t1" \in DOMAIN tasks
    /\ tasks["t1"].status = "completed"
    /\ CompletedEntries("t1") >= 2
    /\ last = Call("assign_task", "False", {"store_task"})

\* The positions of call c in a sequence of calls.
Positions(steps, c) == {k \in 1..Len(steps) : steps[k] = c}

Holders(t) == {i \in DOMAIN instances : instances[i].current_task = t}

\* C26: in every reachable state, every task id is the current_task of at
\* most one live agent.
C26_SingleWriterPerTask ==
    \A t \in {"t1", "t2"} : Cardinality(Holders(t)) <= 1

\* C26 witness: two agents are working, each on its own task, and an
\* assign_task has just been refused.
C26_Witness ==
    /\ \E i, j \in Registered :
          /\ i # j
          /\ instances[i].current_task = "t1"
          /\ instances[j].current_task = "t2"
          /\ instances[i].task_status = "working"
          /\ instances[j].task_status = "working"
    /\ last = Call("assign_task", "False", {"store_task"})

\* The agent object whose call appended the latest context entry.
LatestWriter ==
    {i \in Registered :
        /\ Len(ctx_log[i]) > 0
        /\ ctx_log[i][Len(ctx_log[i])].timestamp + 1 = clock}

\* C27: whenever assign_task or complete_task has returned True, the row
\* of the agent_states table for the calling agent holds the agent's
\* task_status, current_task and context window as they are in memory.
C27_PersistedStateAgrees ==
    (last.op \in {"assign_task", "complete_task"} /\ last.ret = "True")
    => \A i \in LatestWriter :
          /\ i \in DOMAIN agent_states
          /\ agent_states[i]
                = [current_task |-> instances[i].current_task,
                   task_status |-> instances[i].task_status,
                   context_window |-> instances[i].context_window]

\* C28: in every reachable state, the row of the tasks table for an agent's
\* current_task does not have status completed.
C28_CurrentTaskNotCompleted ==
    \A i \in DOMAIN instances :
        LET t == instances[i].current_task
        IN  (t # None /\ t \in DOMAIN tasks)
            => tasks[t].status # "completed"

\* C29: in every reachable state, the row of the tasks table for an agent's
\* current_task names that agent as its assigned_agent.
C29_CurrentTaskIsOwn ==
    \A i \in DOMAIN instances :
        LET t == instances[i].current_task
        IN  (t # None /\ t \in DOMAIN tasks)
            => tasks[t].assigned_agent = instances[i].name

\* C30: assign_task(T) with a task_id that is already in the tasks table,
\* whether an assign_task or a task creation put it there, returns False
\* and leaves the table, every agent and every context window as they
\* were (by contraposition: an assign_task step that returns anything else
\* or changes any of them is not a call with such a task_id). Rows are
\* never removed and an agent takes a task id as its current_task only in
\* the step that inserts its row, so that an id is adopted at most once.
C30_ExistingTaskRefused ==
    [][/\ (/\ last'.op = "assign_task"
           /\ \/ last'.ret # "False"
              \/ tasks' # tasks
              \/ instances' # instances
              \/ ctx_log' # ctx_log)
          => \A i \in Registered, db_up \in BOOLEAN,
                task \in {x \in LedgerTasks : x.task_id \in DOMAIN tasks} :
                ~assign_task(i, task, db_up)
       /\ DOMAIN tasks \subseteq DOMAIN tasks'
       /\ instances' # instances =>
             \A i \in DOMAIN instances', t \in {"t1", "t2"} :
                (/\ instances'[i].current_task = t
                 /\ i \in DOMAIN instances => instances[i].current_task # t)
                => /\ t \notin DOMAIN tasks
                   /\ t \in DOMAIN tasks']_vars

\* C30 witness: both task ids were created through the API, no agent has
\* appended anything, and an assign_task on a running agent was refused.
C30_Witness ==
    /\ DOMAIN tasks = {"t1", "t2"}
    /\ clock = 0
    /\ last = Call("assign_task", "False", {"store_task"})
    /\ \E i \in Registered : instances[i].current_task = None

====
